---- MODULE Spec2Model ----
(***************************************************************************)
(* Telemetry core of the device manager: the session scheduler             *)
(* (src/V2/session.py) and the upload engine with its disk-backed offline  *)
(* queue and replay loop (src/upload.py).                                  *)
(***************************************************************************)
EXTENDS Integers, Sequences, FiniteSets, TLC

(* ---------------------------- bounds ----------------------------------- *)
\* number of batches handed to the upload engine in one run of Spec;
\* SpecConcurrent hands over one more
MaxBatches == 1
\* number of clock seconds (file names) of one run of the model
MaxClock == 2
\* ticks of the session loop in one run of the model
MaxTicks == 20
\* config.ini Setup/batch_size
batch_size == 3
\* Session.camera_interval: sleep_interval // 5, ticks between two images
camera_interval == 1
\* samples the IMU producer appends, and drains the consumer makes, in one run
MaxSamples == 3
MaxDrains == 3
\* lines the GPS reader thread reads in one run
MaxLines == 2
\* times the local time of the device is set back in one run (the end of
\* daylight saving time), and by how many sleep intervals
MaxSetBacks == 1
SetBack == 2
\* falling edges the flow meter's polling thread counts in one run
MaxPulses == 3
\* config.ini Setup/sleep_interval, in seconds
sleep_interval == 5
\* config.ini Setup/flow_meter_pulses_per_litter
flow_meter_pulses_per_litter == 2
\* times _save_imu_values fails in one run of the calibrator
MaxSaveFailures == 1
\* minutes of one run of the wake-on-motion IMU manager
MaxMinutes == 32

(* ----------------------- program constants ----------------------------- *)
max_workers == 3
max_retries == 2
\* Session.max_imu_restarts, and imu_check_interval of Session.run
max_imu_restarts == 5
imu_check_interval == 10
\* IMUCalibrator (src/V3/calibrate/IMU_calibration.py)
ITERATION_THRESHOLD == 150
MAX_CHANGES_ALLOWED == 5
\* src/V4/IMU_manager.py: SLEEP_TIMEOUT = 30 * 60 seconds, in minutes
SLEEP_TIMEOUT == 30

Workers == 1..max_workers
Batches == 1..(MaxBatches + 1)
\* a file name is the second of its creation; 0 is a file left by an earlier run
Names == 0..MaxClock

\* per-attempt outcomes of session.post in upload_json: HTTP 201, another
\* status, ConnectionError/ChunkedEncodingError/HTTPError, Timeout, another
\* RequestException, another Exception
Outcomes == {"201", "status", "conn", "timeout", "reqexc", "exc"}
\* per-attempt outcomes of offline_session.post in upload_offline_data
ReplayOutcomes == {"201", "status", "conn", "timeout", "exc"}

\* a file: st is "none" (no such file), "empty" (0 bytes), "partial" (bytes
\* that do not parse), "emptyjson" (parses, len(data) == 0), "full" (the wire
\* JSON object of batch data); wr: the workers that hold it open for writing;
\* shared: opened by a second writer while a first one held it; over: opened
\* for writing when it already existed
NoFile == [st |-> "none", data |-> 0, wr |-> {}, shared |-> FALSE, over |-> FALSE]
\* what an earlier run can leave behind: nothing, a file cut short by a power
\* loss, an empty JSON object, a batch (numbered 0) that it could not deliver
Leftovers ==
  { NoFile,
    [NoFile EXCEPT !.st = "partial"],
    [NoFile EXCEPT !.st = "emptyjson"],
    [NoFile EXCEPT !.st = "full"] }

NoHist == [res |-> "none", saves |-> 0]

VARIABLES
  clock,        \* datetime.utcnow() truncated to seconds
  queue,        \* work queue of the ThreadPoolExecutor (batch ids)
  nsub,         \* number of batches submitted so far
  wpc,          \* per worker: "idle", "try", "handle", "opened", "writing"
  wbatch,       \* per worker: the batch of its upload_json call
  wattempt,     \* per worker: loop variable attempt of upload_json
  wwait,        \* per worker: seconds of the last time.sleep of upload_json
  wname,        \* per worker: file name chosen by save_to_disk
  wexc,         \* per worker: the failure its handler is dealing with
  wsess,        \* per worker: the session object its last failed attempt used:
                \* "current" while it still is self.session, "closed" once
                \* _recreate_session has replaced it, "none" before a failure
  hist,         \* per batch: result returned by upload_json ("ok", or "error"
                \* for a dict with an 'error' key), completed save_to_disk calls
  offline,      \* /home/proscout/offline_data: name -> file
  problematic,  \* /home/proscout/offline_data/problematic: name -> file
  rpc,          \* replay loop: "sleep", "size", "load", "post"
  rfiles,       \* replay loop: sorted(files) of the current cycle
  ridx,         \* replay loop: position in rfiles
  rattempt,     \* replay loop: loop variable attempt
  rdata,        \* replay loop: data loaded from the current file
  rfailed,      \* names whose attempts were all used up in the current cycle
  ridle,        \* the last cycle of the replay loop found nothing to do and
                \* went back to sleep at once
  rdelivered,   \* batches for which a replay POST returned 201
  rename_result,\* how the last os.rename to problematic/ ended: "ok", "raised"
  attempt_201,  \* loop variable attempt of the last upload_json call that got
                \* a 201 when it got it; -1 before the first
  running,      \* Session.running
  tpc,          \* tick thread: "none", "check", "tick", "exited"
  mpc,          \* caller of start/end: "idle" or "joining" (inside end)
  batch_payload,\* Session.batch_payload
  tickno,       \* ticks run so far
  submitted,    \* payloads handed to flash_batch, by batch id
  ret,          \* what the last call of start or end did: "True", "False",
                \* "raised" (it ended in an exception), "none" before any call
  imu_manager,  \* Session.imu_manager: "none" (None) or "up"
  camera,       \* Session.camera: "none" (None) or "open"
  camera_connected,    \* config.ini Setup/camera
  should_i_snap_image, \* local counter of Session.run
  local_time,   \* datetime.now(): the local time of the device, in sleep intervals
  snap_time,    \* per tick that appended an entry: its snap_time
  set_backs,    \* times the local time was set back so far
  last_snap,    \* the tick of the last image of this run of the loop; 0 when
                \* it has taken none
  last_entry,   \* the GPS fields of the entry appended last
  imu_buffer,   \* contents of the list bound to the global imu_buffer
  ppc,          \* IMU producer: "idle", or "loaded" (inside
                \* imu_buffer.append(...), the list object already fetched),
                \* or "dead" (an exception ended update_imu)
  pstale,       \* the list object the producer fetched is no longer the one
                \* bound to imu_buffer
  cpc,          \* IMU consumer: "idle", or "copied" (inside the with block of
                \* get_imu_buffer_and_reset, after the copy)
  batch,        \* local batch of get_imu_buffer_and_reset
  nsamples,     \* samples the producer has appended so far
  returns,      \* what the calls of get_imu_buffer_and_reset returned, in order
  calm,         \* drains begun since the last step of the producer
  ended,        \* Session.end has stopped the IMU manager and returned
  gps_data,     \* GPSManager.gps_data, but for its 'satellite_systems' entry
  satellite_systems, \* contents of the list object gps_data['satellite_systems']
  gnow,         \* time.time() of the GPS reader thread, in lines read
  line_in,      \* the line the reader thread read last
  snapshot,     \* the dict a caller got from get_gps_data, once one is taken
  snap_systems, \* what the snapshot's satellite systems were when it was returned
  outcomes,     \* how the POST of attempt 0, 1, 2 ends, for a batch in
                \* upload_json and for its file in the replay loop alike
  live_call,    \* that call of upload_json: where it is, its loop variable
                \* attempt, the POSTs it made, whether one got a 201
  replay_call,  \* the retry loop of the replay loop on the file, likewise
  imu_check_counter,    \* local counter of Session.run
  imu_restart_attempts, \* Session.imu_restart_attempts
  imu_alive,    \* self.imu_manager.thread.is_alive()
  imu_fresh,    \* time.time() - self.imu_last_data_time is within
                \* imu_timeout_seconds
  imu_data,     \* local imu_data of the last tick, the IMU list that goes
                \* into its entry: "empty" or "samples"; "none" before the first
  health,       \* how the health check of the last tick ended: "none" (the
                \* tick made no check), "healthy", "restarted",
                \* "restart_failed", "restart_exit", "gave_up"
  replaced_alive, \* the update_imu thread of an IMU manager that restart_imu
                \* has replaced is still running
  stray_samples, \* such a thread has appended to imu_buffer since
  pulse_count,  \* flow_meter.pulse_count
  lock,         \* flow_meter.lock: who holds it, "none", "poll" or "tick"
  pin,          \* level of the flow meter's GPIO pin
  last_state,   \* local last_state of polling_monitor
  fpc,          \* polling_monitor: "read", "wait" (for the lock), "load",
                \* "store" (the two halves of pulse_count += 1)
  loaded,       \* the pulse_count that pulse_count += 1 has loaded
  gpc,          \* get_counter_and_reset: "idle" (not called), "read",
                \* "reset", "return"
  counter,      \* local counter of get_counter_and_reset
  counted,      \* falling edges polling_monitor has added to pulse_count
  returned,     \* sum of the values get_counter_and_reset has returned
  flow_counter, \* local flow_counter of Session.run: the last value returned
  litter_per_hour, \* local litter_per_hour of Session.run, as a fraction
                \* <<numerator, denominator>>
  iteration_counter, \* IMUCalibrator.iteration_counter
  change_counter,    \* IMUCalibrator.change_counter
  calibration,  \* IMUCalibrator.run: "active" (in its loop) or "complete"
                \* (it has returned the calibration values)
  save_failures, \* times _save_imu_values has failed so far
  leds,         \* ButtonLEDManager.leds: per color, whether the LED is lit
  current_led,  \* ButtonLEDManager.current_led: a color, or "none" (None)
  blink_thread, \* the thread of _blink_loop: its led and where it is, "test"
                \* (the loop condition), "on", "wait_on", "off", "wait_off",
                \* "finally", or "none" when no such thread runs
  blink_event,  \* the event of that thread: "none", "clear" or "set"
  lpc,          \* the caller of the LED manager: "idle", or inside a call at
                \* "stop", "join", "current", "green", "on", "start", "default"
  led_op,       \* the call the caller is in: its name and its color
  led_call,     \* the call that returned last: its name and its color
  session,      \* CloudFunctionClient.session: which requests.Session object
                \* it is bound to, numbered as _setup_session creates them
  closed_sessions, \* the session objects _recreate_session has closed
  upc,          \* per worker thread, its call of upload_json: "try" (before
                \* an attempt), "posting" (inside self.session.post), "done"
  uattempt,     \* per worker thread: loop variable attempt of that call
  posting_on,   \* per worker thread: the session object its POST in flight
                \* was made on, 0 when it has none in flight
  is_active,    \* V4 IMUManager.is_active
  sleep_timer,  \* V4 IMUManager.sleep_timer, in minutes; -1 is None
  stop_event,   \* V4 IMUManager.stop_event is set
  high_freq_mode, \* V4 IMUManager.high_freq_mode: FALSE in wake mode
  collector,    \* the thread of V4 update_imu: "none" (self.thread is None),
                \* "running", or "stopped" (it has ended)
  wake_now,     \* time.time() of the wake-on-motion manager, in minutes
  sleep_entered, \* enter_sleep_mode has been called
  data_lock,    \* GPSManager.data_lock: who holds it, "none", "reader"
  parsing,      \* _parse_nmea_line: the assignment it makes next (0 when it
                \* is not running) and the record when it took the lock
  boundaries    \* what the record read as before the first sentence and
                \* after each whole sentence so far

qvars == <<queue, nsub>>
wvars == <<wpc, wbatch, wattempt, wwait, wname, wexc, wsess>>
dvars == <<offline, problematic>>
rvars == <<rpc, rfiles, ridx, rattempt, rdata, rfailed>>
hvars == <<rdelivered, rename_result, attempt_201, ridle>>
uvars == <<clock, qvars, wvars, hist, dvars, rvars, hvars>>
\* the wall clock of the scheduler, when it took its last image and what it
\* appended last
tvars == <<local_time, snap_time, set_backs, last_snap, last_entry>>
svars == <<running, tpc, mpc, batch_payload, tickno, submitted, ret,
           imu_manager, camera, camera_connected, should_i_snap_image, tvars>>
ivars == <<imu_buffer, ppc, pstale, cpc, batch, nsamples, returns, calm,
           ended>>
\* the sensor managers: state the upload engine and the scheduler leave alone
gvars == <<gps_data, satellite_systems, gnow, line_in, snapshot, snap_systems>>
\* one batch under the retry loop of upload_json and under that of the replay
\* loop, with the same outcomes
pvars == <<outcomes, live_call, replay_call>>
\* IMU health monitoring of the tick loop
mvars == <<imu_check_counter, imu_restart_attempts, imu_alive, imu_fresh,
           imu_data, health, replaced_alive, stray_samples>>
\* the flow meter and the flow value of a tick
fvars == <<pulse_count, lock, pin, last_state, fpc, loaded, gpc, counter,
           counted, returned, flow_counter, litter_per_hour>>
\* the compass calibrator
kvars == <<iteration_counter, change_counter, calibration, save_failures>>
\* the peripherals beside the IMU and the GPS
\* the LEDs of the button
lvars == <<leds, current_led, blink_thread, blink_event, lpc, led_op, led_call>>
\* the HTTP session the worker threads of the executor share
xvars == <<session, closed_sessions, upc, uattempt, posting_on>>
\* the wake-on-motion IMU manager
zvars == <<is_active, sleep_timer, stop_event, high_freq_mode, collector,
           wake_now, sleep_entered>>
\* the lock of the GPS fix record
yvars == <<data_lock, parsing, boundaries>>
nvars == <<fvars, kvars, lvars, xvars, zvars, yvars>>
ovars == <<ivars, gvars, pvars, mvars, nvars>>
vars == <<uvars, svars, ovars>>
\* what the actions of one peripheral leave alone
core == <<uvars, svars, ivars, gvars, pvars, mvars>>
beside_flow == <<core, kvars, lvars, xvars, zvars, yvars>>
beside_calibration == <<core, fvars, lvars, xvars, zvars, yvars>>
beside_leds == <<core, fvars, kvars, xvars, zvars, yvars>>
beside_session == <<core, fvars, kvars, lvars, zvars, yvars>>
beside_wake == <<core, fvars, kvars, lvars, xvars, yvars>>
beside_gps == <<uvars, svars, ivars, pvars, mvars, fvars, kvars, lvars, xvars,
                zvars>>

(* ----------------------------- helpers --------------------------------- *)
RECURSIVE Pow2(_)
Pow2(n) == IF n = 0 THEN 1 ELSE 2 * Pow2(n - 1)

Min(S) == CHOOSE x \in S : \A y \in S : x <= y

\* sorted(files): ascending file names
RECURSIVE sorted(_)
sorted(S) == IF S = {} THEN <<>> ELSE <<Min(S)>> \o sorted(S \ {Min(S)})

\* [f for f in os.listdir(offline_dir) if f.endswith('.json')]
listdir == {n \in Names : offline[n].st # "none"}

\* CloudFunctionClient after __init__, with what an earlier run left on disk
InitUpload ==
  /\ clock = 1
  /\ queue = <<>>
  /\ nsub = 0
  /\ wpc = [w \in Workers |-> "idle"]
  /\ wbatch = [w \in Workers |-> 0]
  /\ wattempt = [w \in Workers |-> 0]
  /\ wwait = [w \in Workers |-> 0]
  /\ wname = [w \in Workers |-> 0]
  /\ wexc = [w \in Workers |-> "none"]
  /\ wsess = [w \in Workers |-> "none"]
  /\ hist = [b \in Batches |-> NoHist]
  /\ \E f \in Leftovers : offline = [n \in Names |-> IF n = 0 THEN f ELSE NoFile]
  /\ problematic = [n \in Names |-> NoFile]
  /\ rpc = "sleep"
  /\ rfiles = <<>>
  /\ ridx = 0
  /\ rattempt = 0
  /\ rdata = 0
  /\ rfailed = {}
  /\ rdelivered = {}
  /\ rename_result = "none"
  /\ attempt_201 = -1
  /\ ridle = FALSE

\* the record Session.run puts in place of a snapshot without a fix
placeholder ==
  [fix_status |-> "No Fix", latitude |-> 0, longitude |-> 0, speed_kmh |-> 0,
   course |-> 0]

\* the GPS fields of the entry add_payload_to_batch appends for gps_data
batch_entry(data) ==
  [latitude |-> data.latitude, longitude |-> data.longitude,
   speed_kmh |-> data.speed_kmh, heading |-> data.course,
   gps_fix |-> (data.fix_status # "No Fix")]

\* Session after __init__
InitSession ==
  /\ running = FALSE
  /\ tpc = "none"
  /\ mpc = "idle"
  /\ batch_payload = <<>>
  /\ tickno = 0
  /\ submitted = <<>>
  /\ ret = "none"
  /\ imu_manager = "none"
  /\ camera = "none"
  /\ should_i_snap_image = 0
  /\ local_time = 0
  /\ snap_time = <<>>
  /\ set_backs = 0
  /\ last_snap = 0
  /\ last_entry = batch_entry(placeholder)

\* module IMU_manager after import, before the first sample
InitIMU ==
  /\ imu_buffer = <<>>
  /\ ppc = "idle"
  /\ pstale = FALSE
  /\ cpc = "idle"
  /\ batch = <<>>
  /\ nsamples = 0
  /\ returns = <<>>
  /\ calm = 0
  /\ ended = FALSE

\* GPSManager.__init__: self.gps_data
InitGPS ==
  /\ gps_data = [fix_status |-> "No Fix", latitude |-> 0, longitude |-> 0,
                 altitude |-> 0, speed_knots |-> 0, speed_kmh |-> 0,
                 course |-> 0, satellites_used |-> 0, satellites_view |-> 0,
                 pdop |-> 0, last_update |-> 0, data_timestamp |-> 0]
  /\ satellite_systems = <<>>
  /\ gnow = 0
  /\ line_in = [kind |-> "none"]
  /\ snapshot = [taken |-> FALSE, data |-> gps_data]
  /\ snap_systems = <<>>

\* flow_meter after setup_flow_meter: the polling thread before its first
\* read of the pin, which is pulled up; Session.run before its first tick
InitFlow ==
  /\ pulse_count = 0
  /\ lock = "none"
  /\ pin = 1
  /\ last_state = 1
  /\ fpc = "read"
  /\ loaded = 0
  /\ gpc = "idle"
  /\ counter = 0
  /\ counted = 0
  /\ returned = 0
  /\ flow_counter = 0
  /\ litter_per_hour = <<0, 1>>

\* IMUCalibrator after __init__ and the initial readings, which found that
\* calibration is needed
InitCalibration ==
  /\ iteration_counter = 0
  /\ change_counter = 0
  /\ calibration = "active"
  /\ save_failures = 0

\* class LEDColor
LEDColor == {"RED", "GREEN", "BLUE"}

\* every LED off
all_off == [c \in LEDColor |-> FALSE]

\* ButtonLEDManager._turn_on_green_default
turn_on_green_default == [all_off EXCEPT !["GREEN"] = TRUE]

\* no _blink_loop runs
NoThread == [led |-> "none", pc |-> "none"]

\* ButtonLEDManager after __init__
InitLeds ==
  /\ leds = turn_on_green_default
  /\ current_led = "none"
  /\ blink_thread = NoThread
  /\ blink_event = "none"
  /\ lpc = "idle"
  /\ led_op = [name |-> "__init__", color |-> "GREEN"]
  /\ led_call = [name |-> "__init__", color |-> "GREEN"]

\* CloudFunctionClient after __init__ (_setup_session has created the first
\* session object), each worker thread of the executor with a call of
\* upload_json before its first attempt
InitClient ==
  /\ session = 1
  /\ closed_sessions = {}
  /\ upc = [w \in Workers |-> "try"]
  /\ uattempt = [w \in Workers |-> 0]
  /\ posting_on = [w \in Workers |-> 0]

\* V4 IMUManager after __init__: wake mode, no collection thread
InitWake ==
  /\ is_active = FALSE
  /\ sleep_timer = -1
  /\ stop_event = FALSE
  /\ high_freq_mode = FALSE
  /\ collector = "none"
  /\ wake_now = 0
  /\ sleep_entered = FALSE

\* what a reader of the record sees: its scalar fields and its satellite
\* systems
reads_as(data, systems) == [data |-> data, systems |-> systems]

\* GPSManager after __init__: nobody holds data_lock, no sentence parsed yet
InitDataLock ==
  /\ data_lock = "none"
  /\ parsing = [k |-> 0, before |-> reads_as(gps_data, satellite_systems)]
  /\ boundaries = {reads_as(gps_data, satellite_systems)}

InitSensors ==
  /\ InitIMU /\ InitGPS /\ InitFlow /\ InitCalibration /\ InitLeds
  /\ InitClient /\ InitWake /\ InitDataLock

\* a retry loop before its first attempt
NoCall == [pc |-> "try", attempt |-> 0, posts |-> 0, delivered |-> FALSE]

\* no batch is under comparison
InitPolicy ==
  /\ outcomes = <<>>
  /\ live_call = NoCall
  /\ replay_call = NoCall

\* Session.__init__, IMU health monitoring; no IMU manager yet
InitHealth ==
  /\ imu_check_counter = 0
  /\ imu_restart_attempts = 0
  /\ imu_alive = FALSE
  /\ imu_fresh = TRUE
  /\ imu_data = "none"
  /\ health = "none"
  /\ replaced_alive = FALSE
  /\ stray_samples = FALSE

Init ==
  /\ InitUpload
  /\ InitSession
  /\ camera_connected = TRUE
  /\ InitSensors
  /\ InitPolicy
  /\ InitHealth

(* ------------------- live path: executor and upload_json --------------- *)
\* datetime.utcnow() moves on to the next second
clock_tick ==
  /\ clock < MaxClock
  /\ clock' = clock + 1
  /\ UNCHANGED <<qvars, wvars, hist, dvars, rvars, hvars, svars, ovars>>

\* executor.submit(self.upload_class.upload_json, self.batch_payload)
executor_submit ==
  /\ nsub' = nsub + 1
  /\ queue' = Append(queue, nsub + 1)

\* the scheduler hands one full batch to the upload engine
submit(limit) ==
  /\ nsub < limit
  /\ executor_submit
  /\ UNCHANGED <<clock, wvars, hist, dvars, rvars, hvars, svars, ovars>>

\* an idle worker thread of the pool takes the oldest queued call
worker_take(w) ==
  /\ wpc[w] = "idle"
  /\ queue # <<>>
  /\ w = Min({v \in Workers : wpc[v] = "idle"})
  /\ wpc' = [wpc EXCEPT ![w] = "try"]
  /\ wbatch' = [wbatch EXCEPT ![w] = Head(queue)]
  /\ queue' = Tail(queue)
  /\ UNCHANGED <<clock, nsub, wattempt, wwait, wname, wexc, wsess, hist, dvars,
                 rvars, hvars, svars, ovars>>

\* return of upload_json: the worker thread is idle again
worker_return(w) ==
  /\ wpc' = [wpc EXCEPT ![w] = "idle"]
  /\ wbatch' = [wbatch EXCEPT ![w] = 0]
  /\ wattempt' = [wattempt EXCEPT ![w] = 0]
  /\ wwait' = [wwait EXCEPT ![w] = 0]
  /\ wname' = [wname EXCEPT ![w] = 0]
  /\ wexc' = [wexc EXCEPT ![w] = "none"]
  /\ wsess' = [wsess EXCEPT ![w] = "none"]

\* except (ConnectionError, ChunkedEncodingError, HTTPError) / except Timeout
retryable(o) == o \in {"conn", "timeout"}

\* variant with an off-by-one bound: a fourth attempt would be made
more_attempts_off_by_one(attempt) == attempt <= max_retries

\* if attempt < max_retries
more_attempts(attempt) == attempt < max_retries

\* the handler that calls self._recreate_session() before it retries
recreates(o) == o = "conn"

\* _recreate_session: self.session.close() and _setup_session(), which binds
\* self.session to a new requests.Session; S maps each worker to the session
\* object of its last failed attempt
recreate_session(S) ==
  [v \in Workers |-> IF S[v] = "current" THEN "closed" ELSE S[v]]

\* time.sleep(2 ** attempt)
backoff(attempt) == Pow2(attempt)

\* variant in which the Timeout handler returns the error without saving
saves_to_disk_no_timeout(o) == o \in {"conn", "reqexc"}

\* the handlers that call self.save_to_disk(json_txt)
saves_to_disk(o) == o \in {"conn", "timeout", "reqexc"}

\* f"offline_data_{datetime.utcnow().strftime('%Y%m%d_%H%M%S')}.json"
filename(t) == t

\* open(filepath, 'w'): creates the file, or truncates the one of that name
fs_open_w(dir, n, w) ==
  [dir EXCEPT ![n] = [st |-> "empty", data |-> 0, wr |-> @.wr \cup {w},
                      shared |-> (@.wr # {}), over |-> (@.st # "none")]]

\* os.remove(filepath)
fs_remove(dir, n) == [dir EXCEPT ![n] = NoFile]

\* one iteration of the for loop of upload_json: up to the return after a 201,
\* the continue of a retry, the open() of save_to_disk when the handler saves,
\* or the entry of a branch that returns the error without saving
upload_json(w, o) ==
  /\ wpc[w] = "try"
  /\ LET b == wbatch[w]
         a == wattempt[w]
     IN  IF o = "201" THEN
           /\ hist' = [hist EXCEPT ![b].res = "ok"]
           /\ attempt_201' = a
           /\ worker_return(w)
           /\ UNCHANGED offline
         ELSE IF retryable(o) /\ more_attempts(a) THEN
           /\ UNCHANGED attempt_201
           /\ wwait' = [wwait EXCEPT ![w] = backoff(a)]
           /\ wattempt' = [wattempt EXCEPT ![w] = a + 1]
           /\ LET used == [wsess EXCEPT ![w] = "current"]
              IN  wsess' = IF recreates(o) THEN recreate_session(used) ELSE used
           /\ UNCHANGED <<wpc, wbatch, wname, wexc, hist, offline>>
         ELSE IF saves_to_disk(o) THEN
           /\ wexc' = [wexc EXCEPT ![w] = o]
           /\ wname' = [wname EXCEPT ![w] = filename(clock)]
           /\ offline' = fs_open_w(offline, filename(clock), w)
           /\ wpc' = [wpc EXCEPT ![w] = "opened"]
           /\ UNCHANGED <<wattempt, wwait, wbatch, wsess, hist, attempt_201>>
         ELSE
           /\ wexc' = [wexc EXCEPT ![w] = o]
           /\ wpc' = [wpc EXCEPT ![w] = "handle"]
           /\ UNCHANGED <<wattempt, wwait, wbatch, wname, wsess, hist, offline,
                          attempt_201>>
  /\ UNCHANGED <<clock, qvars, problematic, rvars, rdelivered, rename_result,
                 ridle, svars, ovars>>

\* return {'error': ...} of the else branch of the status check and of
\* "except Exception": the call ends without save_to_disk
upload_json_return(w) ==
  /\ wpc[w] = "handle"
  /\ hist' = [hist EXCEPT ![wbatch[w]].res = "error"]
  /\ worker_return(w)
  /\ UNCHANGED <<clock, qvars, dvars, rvars, hvars, svars, ovars>>

\* where the file a worker holds open is now: the replay loop may have moved
\* or unlinked it since the open()
where(w) ==
  IF w \in offline[wname[w]].wr THEN "offline"
  ELSE IF w \in problematic[wname[w]].wr THEN "problematic"
  ELSE "gone"

\* json.dump(data, f, indent=2): the buffer is flushed before the dump is over
save_flush(w) ==
  /\ wpc[w] = "opened"
  /\ wpc' = [wpc EXCEPT ![w] = "writing"]
  /\ LET n == wname[w]
         b == wbatch[w]
     IN  CASE where(w) = "offline" ->
                /\ offline' = [offline EXCEPT ![n].st = "partial", ![n].data = b]
                /\ UNCHANGED problematic
           [] where(w) = "problematic" ->
                /\ problematic' = [problematic EXCEPT ![n].st = "partial",
                                                      ![n].data = b]
                /\ UNCHANGED offline
           [] OTHER -> UNCHANGED <<offline, problematic>>
  /\ UNCHANGED <<clock, qvars, wbatch, wattempt, wwait, wname, wexc, wsess,
                 hist,
                 rvars, hvars, svars, ovars>>

\* the file's bytes once a writer closes it: complete, unless a second writer
\* opened the same name meanwhile (two writers, one inode: either's bytes or a mix)
closed_states(f) == IF f.shared THEN {"full", "partial"} ELSE {"full"}

\* variant of a handler without its return: the for loop goes on with the
\* next attempt after save_to_disk
after_save_goes_on(w) ==
  IF wattempt[w] < max_retries
    THEN /\ wpc' = [wpc EXCEPT ![w] = "try"]
         /\ wattempt' = [wattempt EXCEPT ![w] = @ + 1]
         /\ UNCHANGED <<wbatch, wwait, wname, wexc, wsess>>
    ELSE worker_return(w)

\* return {'error': ...} right after self.save_to_disk(json_txt)
after_save(w) == worker_return(w)

\* end of the with block of save_to_disk, then the return of upload_json
save_close(w) ==
  /\ wpc[w] \in {"opened", "writing"}
  /\ after_save(w)
  /\ LET n == wname[w]
         b == wbatch[w]
     IN  /\ hist' = [hist EXCEPT ![b].saves = @ + 1, ![b].res = "error"]
         /\ CASE where(w) = "offline" ->
                  /\ \E st \in closed_states(offline[n]) :
                       offline' = [offline EXCEPT ![n].st = st, ![n].data = b,
                                                  ![n].wr = @ \ {w}]
                  /\ UNCHANGED problematic
             [] where(w) = "problematic" ->
                  /\ \E st \in closed_states(problematic[n]) :
                       problematic' = [problematic EXCEPT ![n].st = st,
                                         ![n].data = b, ![n].wr = @ \ {w}]
                  /\ UNCHANGED offline
             [] OTHER -> UNCHANGED <<offline, problematic>>
  /\ UNCHANGED <<clock, qvars, rvars, hvars, svars, ovars>>

(* --------------------- replay loop: upload_offline_data ---------------- *)
\* for filename in sorted(files)
replay_order(S) == sorted(S)

\* end of one file of the for loop: the next file, or the sleep that ends the
\* cycle; F is the set of names that used up their attempts in this cycle
replay_next(F) ==
  /\ rattempt' = 0
  /\ rdata' = 0
  /\ IF ridx < Len(rfiles)
       THEN /\ ridx' = ridx + 1
            /\ rpc' = "size"
            /\ rfailed' = F
            /\ UNCHANGED rfiles
       ELSE /\ ridx' = 0
            /\ rpc' = "sleep"
            /\ rfiles' = <<>>
            /\ rfailed' = {}

\* variant of a loop that starts on its files whether it found any or not
nothing_to_do_never(files) == FALSE

\* if not os.path.exists(offline_dir) / if not files: sleep and continue; a
\* missing directory and one without a .json file both list no file
nothing_to_do(files) == files = {}

\* start of one cycle: os.listdir; nothing to do when there is no file
replay_scan ==
  /\ rpc = "sleep"
  /\ IF nothing_to_do(listdir)
       THEN /\ ridle' = TRUE
            /\ UNCHANGED <<rpc, rfiles, ridx>>
       ELSE /\ rfiles' = replay_order(listdir)
            /\ ridx' = 1
            /\ rpc' = "size"
            /\ ridle' = FALSE
  /\ UNCHANGED <<clock, qvars, wvars, hist, dvars, rattempt, rdata, rfailed,
                 rdelivered, rename_result, attempt_201, svars, ovars>>

\* if os.path.getsize(filepath) == 0: os.remove(filepath); continue
replay_size ==
  /\ rpc = "size"
  /\ LET n == rfiles[ridx]
         f == offline[n]
     IN  CASE f.st = "none" ->
                /\ replay_next(rfailed)
                /\ UNCHANGED offline
           [] f.st = "empty" ->
                /\ offline' = fs_remove(offline, n)
                /\ replay_next(rfailed)
           [] OTHER ->
                /\ rpc' = "load"
                /\ UNCHANGED <<offline, rfiles, ridx, rattempt, rdata, rfailed>>
  /\ UNCHANGED <<clock, qvars, wvars, hist, problematic, hvars, svars, ovars>>

\* variant of a loader that accepts cut-short bytes as data
unparseable_only_empty(f) == f.st = "empty"

\* json.load raises JSONDecodeError
unparseable(f) == f.st \in {"empty", "partial"}

\* variant of a handler that unlinks the file without trying to move it
quarantine_unlink(n, renamed) ==
  /\ offline' = fs_remove(offline, n)
  /\ UNCHANGED <<problematic, rename_result>>

\* except json.JSONDecodeError: os.rename to problematic/, and os.remove when
\* the rename fails
quarantine(n, renamed) ==
  /\ offline' = fs_remove(offline, n)
  /\ IF renamed
       THEN /\ problematic' = [problematic EXCEPT ![n] = offline[n]]
            /\ rename_result' = "ok"
       ELSE /\ rename_result' = "raised"
            /\ UNCHANGED problematic

\* with open(filepath, 'r') as f: data = json.load(f), and the two checks on
\* the result
replay_load ==
  /\ rpc = "load"
  /\ LET n == rfiles[ridx]
         f == offline[n]
     IN  CASE f.st = "none" ->
                /\ replay_next(rfailed)
                /\ UNCHANGED <<offline, problematic, rename_result>>
           [] unparseable(f) ->
                /\ \E renamed \in BOOLEAN : quarantine(n, renamed)
                /\ replay_next(rfailed)
           [] f.st = "emptyjson" ->
                /\ offline' = fs_remove(offline, n)
                /\ replay_next(rfailed)
                /\ UNCHANGED <<problematic, rename_result>>
           [] OTHER ->
                /\ rdata' = f.data
                /\ rpc' = "post"
                /\ UNCHANGED <<offline, problematic, rename_result, rfiles, ridx,
                               rattempt, rfailed>>
  /\ UNCHANGED <<clock, qvars, wvars, hist, rdelivered, attempt_201, ridle,
                 svars, ovars>>

\* the replay handlers that go on to the next attempt
replay_retryable(o) == o \in {"status", "conn", "timeout"}

\* if attempt < max_retries, in the handlers of the replay loop
replay_more_attempts(attempt) == attempt < max_retries

\* variant in which a file out of attempts ends the cycle
after_failure_break(F) ==
  /\ rattempt' = 0
  /\ rdata' = 0
  /\ ridx' = 0
  /\ rpc' = "sleep"
  /\ rfiles' = <<>>
  /\ rfailed' = {}

\* if not upload_success: continue
after_failure(F) == replay_next(F)

\* one iteration of "for attempt in range(max_retries + 1)" of the replay loop
replay_post(o) ==
  /\ rpc = "post"
  /\ LET n == rfiles[ridx]
         a == rattempt
     IN  IF o = "201" THEN
           /\ offline' = fs_remove(offline, n)
           /\ rdelivered' = rdelivered \cup {rdata}
           /\ replay_next(rfailed)
         ELSE IF replay_retryable(o) /\ replay_more_attempts(a) THEN
           /\ rattempt' = a + 1
           /\ UNCHANGED <<offline, rdelivered, rpc, rfiles, ridx, rdata, rfailed>>
         ELSE IF replay_retryable(o) THEN
           /\ after_failure(rfailed \cup {n})
           /\ UNCHANGED <<offline, rdelivered>>
         ELSE
           /\ after_failure(rfailed)
           /\ UNCHANGED <<offline, rdelivered>>
  /\ UNCHANGED <<clock, qvars, wvars, hist, problematic, rename_result,
                 attempt_201, ridle, svars, ovars>>

(* ------------------------- the upload engine --------------------------- *)
Engine ==
  \/ clock_tick
  \/ \E w \in Workers : worker_take(w)
  \/ \E w \in Workers, o \in Outcomes : upload_json(w, o)
  \/ \E w \in Workers : upload_json_return(w)
  \/ \E w \in Workers : save_flush(w)
  \/ \E w \in Workers : save_close(w)
  \/ replay_scan
  \/ replay_size
  \/ replay_load
  \/ \E o \in ReplayOutcomes : replay_post(o)

Next == submit(MaxBatches) \/ Engine

Spec == Init /\ [][Next]_vars

\* the same engine with one more batch in flight
NextConcurrent == submit(MaxBatches + 1) \/ Engine

SpecConcurrent == Init /\ [][NextConcurrent]_vars

(* ------------------- session scheduler: Session ------------------------ *)
\* variant of a flush that keeps on filling the list it has handed over
flash_batch_keeps(payload) ==
  /\ executor_submit
  /\ submitted' = Append(submitted, payload)
  /\ batch_payload' = payload

\* Session.flash_batch
flash_batch(payload) ==
  /\ executor_submit
  /\ submitted' = Append(submitted, payload)
  /\ batch_payload' = <<>>

\* Session.add_payload_to_batch: append, and flush a batch of batch_size entries
add_payload_to_batch(entry) ==
  LET payload == Append(batch_payload, entry)
  IN  IF Len(payload) = batch_size
        THEN flash_batch(payload)
        ELSE /\ batch_payload' = payload
             /\ UNCHANGED <<queue, nsub, submitted>>

\* the sensor state that a call of start, end or a tick leaves alone
sensors == <<imu_manager, camera, camera_connected, should_i_snap_image>>

\* how IMUManager(imu_rate_per_second) ends in start: the thread is up, an
\* Exception is raised, or detectIMU finds no device and calls sys.exit(1)
ImuInits == {"ok", "raises", "undetected"}
\* how Camera(self.camera_index) ends in start
CameraInits == {"ok", "raises"}

\* Session.start, called while no end is in progress
start(imu, cam) ==
  /\ mpc = "idle"
  /\ IF running
       THEN /\ ret' = "False"
            /\ UNCHANGED <<running, tpc, sensors, last_snap>>
       ELSE /\ running' = TRUE
            /\ IF imu = "undetected"
                 THEN \* SystemExit is not an Exception: it leaves start
                      /\ ret' = "raised"
                      /\ UNCHANGED <<tpc, sensors, last_snap>>
                 ELSE /\ imu_manager' = IF imu = "ok" THEN "up" ELSE "none"
                      /\ camera' = IF camera_connected /\ cam = "ok"
                                     THEN "open" ELSE "none"
                      /\ tpc' = "check"
                      /\ should_i_snap_image' = 0
                      /\ last_snap' = 0
                      /\ ret' = "True"
                      /\ UNCHANGED camera_connected
  /\ UNCHANGED <<mpc, batch_payload, tickno, submitted, local_time, snap_time,
                 set_backs, last_entry, uvars, ovars>>

\* while self.running:
run_check ==
  /\ tpc = "check"
  /\ tpc' = IF running THEN "tick" ELSE "exited"
  /\ UNCHANGED <<running, mpc, batch_payload, tickno, submitted, ret, sensors,
                 tvars, uvars, ovars>>

\* what get_gps_data() returns: a record with a fix, a record with
\* fix_status 'No Fix', or None when the GPS is not connected
GpsReturns == {"fix", "nofix", "none"}
\* how self.camera.snap_as_base64() ends
Snaps == {"ok", "raises"}

\* the tick takes an image: camera_connected and the counter is due
snaps_image == camera_connected /\ should_i_snap_image = camera_interval

\* an exception leaves the loop body: gps_data['fix_status'] on None, or the
\* snap on a camera that is None or fails to capture
tick_raises(gps, snap) ==
  \/ gps = "none"
  \/ (snaps_image /\ (camera = "none" \/ snap = "raises"))

\* the record get_gps_data() returns when the GPS is connected: the live
\* record, which keeps the position, speed and course of its last valid fix
\* (in arc minutes, metres per hour, degrees) when the fix is lost
gps_snapshot(gps) ==
  [fix_status |-> IF gps = "fix" THEN "Valid Fix" ELSE "No Fix",
   latitude |-> 1950, longitude |-> 1950, speed_kmh |-> 12964, course |-> 90]

\* if gps_data['fix_status'] == 'No Fix': gps_data = {...zeros...}
substitute(data) == IF data.fix_status = "No Fix" THEN placeholder ELSE data

\* snap_time = datetime.now(): the local time, no UTC offset attached
datetime_now == local_time

\* sleep(self.interval): one interval later
sleep(t) == t + 1

\* the body of one tick of Session.run, up to the end of sleep(self.interval)
run_tick(gps, snap) ==
  /\ tpc = "tick"
  /\ tickno < MaxTicks
  /\ IF tick_raises(gps, snap)
       THEN \* nothing in run catches it: the thread ends
            /\ tpc' = "dead"
            /\ UNCHANGED <<tickno, batch_payload, queue, nsub, submitted,
                           should_i_snap_image, local_time, snap_time,
                           last_snap, last_entry>>
       ELSE /\ should_i_snap_image' =
                 IF snaps_image THEN 0
                 ELSE IF camera_connected THEN should_i_snap_image + 1
                 ELSE should_i_snap_image
            /\ last_snap' = IF snaps_image THEN tickno + 1 ELSE last_snap
            /\ last_entry' = batch_entry(substitute(gps_snapshot(gps)))
            /\ tickno' = tickno + 1
            /\ snap_time' = Append(snap_time, datetime_now)
            /\ add_payload_to_batch(tickno + 1)
            /\ local_time' = sleep(local_time)
            /\ tpc' = "check"
  /\ UNCHANGED <<running, mpc, ret, imu_manager, camera, camera_connected,
                 set_backs, clock, wvars, hist, dvars, rvars, hvars, ovars>>

\* Session.end up to self.thread.join()
end_begin ==
  /\ mpc = "idle"
  /\ IF running
       THEN /\ running' = FALSE
            /\ mpc' = "joining"
            /\ UNCHANGED ret
       ELSE /\ ret' = "False"
            /\ UNCHANGED <<running, mpc>>
  /\ UNCHANGED <<tpc, batch_payload, tickno, submitted, sensors, tvars, uvars,
                 ovars>>

\* variant of a join that gives up waiting
thread_joined_no_wait == TRUE

\* self.thread.join() has returned: the tick thread has ended
thread_joined == tpc \in {"exited", "dead"}

\* self.thread.join() and the rest of end: join returns once the tick thread
\* has ended and end returns True; self.thread is None when no start ever got
\* to Thread(target=self.run), and the call ends in an AttributeError
end_join ==
  /\ mpc = "joining"
  /\ \/ tpc = "none" /\ ret' = "raised"
     \/ tpc # "none" /\ thread_joined /\ ret' = "True"
  /\ mpc' = "idle"
  /\ UNCHANGED <<running, tpc, batch_payload, tickno, submitted, sensors, tvars,
                 uvars, ovars>>

\* the local time of the device is set back while the session is up: daylight
\* saving time ends, the UTC clock of the file names goes on
local_time_set_back ==
  /\ set_backs < MaxSetBacks
  /\ set_backs' = set_backs + 1
  /\ local_time' = local_time - SetBack
  /\ UNCHANGED <<running, tpc, mpc, batch_payload, tickno, submitted, ret,
                 sensors, snap_time, last_snap, last_entry, uvars, ovars>>

SessionNext ==
  \/ \E imu \in ImuInits, cam \in CameraInits : start(imu, cam)
  \/ run_check
  \/ \E gps \in GpsReturns, snap \in Snaps : run_tick(gps, snap)
  \/ end_begin
  \/ end_join
  \/ local_time_set_back

\* the scheduler on a device whose offline directory is empty, with or without
\* a camera in its configuration
SessionInit ==
  /\ InitUpload
  /\ listdir = {}
  /\ InitSession
  /\ camera_connected \in BOOLEAN
  /\ InitSensors
  /\ InitPolicy
  /\ InitHealth

SessionSpec == SessionInit /\ [][SessionNext]_vars

(* ------------------ IMU buffer: src/V2/IMU_manager.py ------------------ *)
\* update_imu, imu_buffer.append(self.imu_data.copy()): the global is read and
\* its list object fetched before the argument is evaluated and append called
imu_fetch ==
  /\ ppc = "idle"
  /\ nsamples < MaxSamples
  /\ ppc' = "loaded"
  /\ pstale' = FALSE
  /\ calm' = 0
  /\ UNCHANGED <<imu_buffer, cpc, batch, nsamples, returns, ended, uvars, nvars, svars,
                 gvars, pvars, mvars>>

\* the append itself, on the list object fetched: a sample appended to a list
\* that is no longer bound to imu_buffer is in no later batch
imu_append ==
  /\ ppc = "loaded"
  /\ ppc' = "idle"
  /\ nsamples' = nsamples + 1
  /\ imu_buffer' = IF pstale THEN imu_buffer ELSE Append(imu_buffer, nsamples + 1)
  /\ pstale' = FALSE
  /\ calm' = 0
  /\ UNCHANGED <<cpc, batch, returns, ended, uvars, nvars, svars, gvars, pvars, mvars>>

\* get_imu_buffer_and_reset: with lock: batch = imu_buffer.copy()
drain_copy ==
  /\ cpc = "idle"
  /\ Len(returns) < MaxDrains
  /\ batch' = imu_buffer
  /\ cpc' = "copied"
  /\ calm' = calm + 1
  /\ UNCHANGED <<imu_buffer, ppc, pstale, nsamples, returns, ended, uvars, nvars,
                 svars, gvars, pvars, mvars>>

\* variant of a drain that leaves the list in place
rebind_keep == imu_buffer

\* imu_buffer = []: the global is bound to a new list
rebind == <<>>

\* imu_buffer = []; return batch
drain_return ==
  /\ cpc = "copied"
  /\ imu_buffer' = rebind
  /\ pstale' = (ppc = "loaded")
  /\ returns' = Append(returns, batch)
  /\ batch' = <<>>
  /\ cpc' = "idle"
  /\ UNCHANGED <<ppc, nsamples, calm, ended, uvars, nvars, svars, gvars, pvars, mvars>>

\* what can raise in one cycle of update_imu: a register read
\* (bus.read_byte_data in readACCx .. readMAGz, the barometer in
\* read_temperature) or the heading computation
CycleFailures == {"read", "heading"}

\* a cycle of update_imu in which something raises: the heading computation
\* is inside the try of update_tilt_compensated_heading, the cycle goes on to
\* its append; a read is inside no try, the exception leaves "while True:"
\* and ends the thread
update_imu_raises(failure) ==
  /\ ppc = "idle"
  /\ nsamples < MaxSamples
  /\ ppc' = IF failure = "heading" THEN "loaded" ELSE "dead"
  /\ pstale' = FALSE
  /\ calm' = 0
  /\ UNCHANGED <<imu_buffer, cpc, batch, nsamples, returns, ended, uvars, nvars, svars,
                 gvars, pvars, mvars>>

\* the end of Session.end: self.imu_manager.running = False, then
\* self.imu_manager.thread.join(timeout=10), which returns when the thread
\* has ended or after 10 s, and return True; update_imu is "while True:" and
\* reads no running attribute
end_stop_imu ==
  /\ ~ended
  /\ ended' = TRUE
  /\ UNCHANGED <<imu_buffer, ppc, pstale, cpc, batch, nsamples, returns, calm,
                 uvars, nvars, svars, gvars, pvars, mvars>>

IMUNext ==
  \/ imu_fetch
  \/ imu_append
  \/ drain_copy
  \/ drain_return
  \/ end_stop_imu
  \/ \E failure \in CycleFailures : update_imu_raises(failure)

\* the IMU buffer on a device whose offline directory is empty
IMUInit == Init /\ listdir = {}

IMUSpec == IMUInit /\ [][IMUNext]_vars

(* ------------------- GPS fix record: src/gps_manager.py ---------------- *)
\* fields of the lines, as text: "" is an empty field, "x" one that float()
\* or int() rejects; a position is the DDMM digits of latitude and longitude
\* and the hemisphere letter
Positions == [ddmm : {"", "x", "3230"}, dir : {"N", "S"}]
Speeds == {"", "x", "7"}
Courses == {"", "90"}

\* float(text) and int(text) on the fields above
number(text) ==
  CASE text = "3230" -> 3230
    [] text = "120" -> 120
    [] text = "90" -> 90
    [] text = "9" -> 9
    [] text = "7" -> 7
    [] text = "5" -> 5
    [] text = "2" -> 2

\* float(text) or int(text) raises ValueError
rejected(text) == text = "x"

\* the lines a receiver can send: the four sentence kinds, a sentence of
\* another kind ("VTG"), and a line that is no sentence at all; long: the
\* sentence has the number of fields its parser asks for
RmcLines ==
  [kind : {"RMC"}, long : BOOLEAN, status : {"A", "V"}, pos : Positions,
   speed : Speeds, course : Courses]
GgaLines == [kind : {"GGA"}, long : BOOLEAN, sats : {"", "x", "5"},
             alt : {"", "120"}]
GsaLines == [kind : {"GSA"}, long : BOOLEAN, fix_type : {"1", "2", "3", ""},
             pdop : {"", "x", "2"}]
GsvLines == [kind : {"GSV"}, long : BOOLEAN, talker : {"GP", "GL"},
             msg : {"1", "2"}, sats : {"", "9", "5"}]
OtherLines == {[kind |-> "VTG"], [kind |-> "noise"]}
Lines == RmcLines \cup GgaLines \cup GsaLines \cup GsvLines \cup OtherLines

\* float(lat_str[:2]) + float(lat_str[2:]) / 60, negated for 'S' (and the
\* same for the longitude), in arc minutes
to_degrees(pos) ==
  LET ddmm == number(pos.ddmm)
      minutes == ((ddmm \div 100) * 60) + (ddmm % 100)
  IN  IF pos.dir = "S" THEN 0 - minutes ELSE minutes

\* float(speed_str) * 1.852, in metres per hour
to_kmh(knots) == knots * 1852

\* the position block of parse_rmc; raises on a field float() rejects
rmc_position(d, l) ==
  IF l.status = "A" /\ l.pos.ddmm # ""
    THEN [d EXCEPT !.latitude = to_degrees(l.pos), !.longitude = to_degrees(l.pos)]
    ELSE d

\* the speed and course blocks of parse_rmc, outside "if status == 'A'"
rmc_motion(d, l) ==
  IF rejected(l.speed) THEN d
  ELSE LET d1 == IF l.speed = "" THEN d
                 ELSE [d EXCEPT !.speed_knots = number(l.speed),
                                !.speed_kmh = to_kmh(number(l.speed))]
       IN  IF l.course = "" THEN d1
           ELSE [d1 EXCEPT !.course = number(l.course)]

\* GPSManager.parse_rmc: an exception ends it where it is raised and is
\* swallowed, what was assigned before stays
parse_rmc(d, l) ==
  IF ~l.long THEN d
  ELSE LET d1 == [d EXCEPT !.fix_status =
                     IF l.status = "A" THEN "Valid Fix" ELSE "No Fix"]
       IN  IF l.status = "A" /\ rejected(l.pos.ddmm) THEN d1
           ELSE rmc_motion(rmc_position(d1, l), l)

\* GPSManager.parse_gga
parse_gga(d, l) ==
  IF ~l.long \/ rejected(l.sats) THEN d
  ELSE LET d1 == IF l.sats = "" THEN d
                 ELSE [d EXCEPT !.satellites_used = number(l.sats)]
       IN  IF l.alt = "" THEN d1 ELSE [d1 EXCEPT !.altitude = number(l.alt)]

\* GPSManager.parse_gsa
parse_gsa(d, l) ==
  IF ~l.long THEN d
  ELSE LET d1 == CASE l.fix_type = "1" -> [d EXCEPT !.fix_status = "No Fix"]
                   [] l.fix_type = "2" -> [d EXCEPT !.fix_status = "2D Fix"]
                   [] l.fix_type = "3" -> [d EXCEPT !.fix_status = "3D Fix"]
                   [] OTHER -> d
       IN  IF l.pdop = "" \/ rejected(l.pdop) THEN d1
           ELSE [d1 EXCEPT !.pdop = number(l.pdop)]

\* a GSV sentence updates the count whatever its sequence index
parse_gsv_any_message(d, l) ==
  IF l.long /\ l.sats # ""
    THEN [d EXCEPT !.satellites_view = number(l.sats)]
    ELSE d

\* GPSManager.parse_gsv, the scalar part
parse_gsv(d, l) ==
  IF l.long /\ l.msg = "1" /\ l.sats # ""
    THEN [d EXCEPT !.satellites_view = number(l.sats)]
    ELSE d

\* the system name parse_gsv derives from the talker
system_of(l) == IF l.talker = "GP" THEN "GPS" ELSE "GLONASS"

\* parse_gsv: self.gps_data['satellite_systems'].append(system), in place
gsv_systems(sys, l) ==
  IF l.long /\ \A i \in 1..Len(sys) : sys[i] # system_of(l)
    THEN Append(sys, system_of(l))
    ELSE sys

\* _continuous_read hands over the lines that start with '$' and hold a '*'
is_sentence(l) == l.kind # "noise"

\* _parse_nmea_line stamps the record after the if/elif chain
stamp(d, t) == [d EXCEPT !.data_timestamp = t, !.last_update = t]

\* _parse_nmea_line under data_lock
parse_nmea_line(d, l, t) ==
  stamp(CASE l.kind = "RMC" -> parse_rmc(d, l)
          [] l.kind = "GGA" -> parse_gga(d, l)
          [] l.kind = "GSA" -> parse_gsa(d, l)
          [] l.kind = "GSV" -> parse_gsv(d, l)
          [] OTHER -> d, t)

\* one round of _continuous_read that finds a line
gps_ingest(l) ==
  /\ gnow < MaxLines
  /\ gnow' = gnow + 1
  /\ line_in' = l
  /\ gps_data' = IF is_sentence(l) THEN parse_nmea_line(gps_data, l, gnow + 1)
                 ELSE gps_data
  /\ satellite_systems' = IF l.kind = "GSV" THEN gsv_systems(satellite_systems, l)
                          ELSE satellite_systems
  /\ UNCHANGED <<snapshot, snap_systems, uvars, nvars, svars, ivars, pvars, mvars>>

\* GPSManager.get_gps_data: with self.data_lock: return self.gps_data.copy()
get_gps_data ==
  /\ snapshot' = [taken |-> TRUE, data |-> gps_data]
  /\ snap_systems' = satellite_systems
  /\ UNCHANGED <<gps_data, satellite_systems, gnow, line_in, uvars, nvars, svars, ivars, pvars, mvars>>

\* what the snapshot's 'satellite_systems' entry reads as: dict.copy() is
\* shallow, the entry is the list object of the live record
snapshot_systems == satellite_systems

GPSNext ==
  \/ \E l \in Lines : gps_ingest(l)
  \/ get_gps_data

\* the GPS manager on a device whose offline directory is empty
GPSInit == Init /\ listdir = {}

GPSSpec == GPSInit /\ [][GPSNext]_vars

(* ------------- data_lock of the GPS fix record: src/gps_manager.py ----- *)
\* the record after each assignment of _parse_nmea_line on the line l, from
\* the record r: parse_rmc assigns fix_status, then latitude, then longitude
\* and the rest; parse_gsv appends the system, then assigns the count; the
\* stamps come last
assignments(r, l, t) ==
  LET d == r.data
      done == parse_nmea_line(d, l, t)
      sys == IF l.kind = "GSV" THEN gsv_systems(r.systems, l) ELSE r.systems
  IN  CASE l.kind = "RMC" ->
             LET d1 == IF l.long
                         THEN [d EXCEPT !.fix_status =
                                 IF l.status = "A" THEN "Valid Fix" ELSE "No Fix"]
                         ELSE d
                 d2 == IF l.long /\ l.status = "A" /\ l.pos.ddmm \notin {"", "x"}
                         THEN [d1 EXCEPT !.latitude = to_degrees(l.pos)]
                         ELSE d1
             IN  <<reads_as(d1, sys), reads_as(d2, sys),
                   reads_as(parse_rmc(d, l), sys), reads_as(done, sys)>>
        [] l.kind = "GSV" ->
             <<reads_as(d, sys), reads_as(parse_gsv(d, l), sys),
               reads_as(done, sys)>>
        [] OTHER -> <<reads_as(done, sys)>>

\* variant without mutual exclusion: the with block is entered at once
data_lock_ignored(holder) == TRUE

\* "with self.data_lock:" is entered when nobody holds the lock
data_lock_free(holder) == holder = "none"

\* _continuous_read hands a sentence to _parse_nmea_line, which takes
\* data_lock; the sentences here carry every field their parser reads (a
\* shorter one leaves the record as it is)
parse_begin(l) ==
  /\ gnow < MaxLines
  /\ is_sentence(l)
  /\ IF l.kind = "VTG" THEN TRUE ELSE l.long
  /\ parsing.k = 0
  /\ data_lock_free(data_lock)
  /\ data_lock' = "reader"
  /\ line_in' = l
  /\ parsing' = [k |-> 1, before |-> reads_as(gps_data, satellite_systems)]
  /\ UNCHANGED <<gps_data, satellite_systems, gnow, snapshot, snap_systems,
                 boundaries, beside_gps>>

\* the next assignment of _parse_nmea_line; after the last one the with
\* block ends
parse_assign ==
  /\ parsing.k > 0
  /\ LET todo == assignments(parsing.before, line_in, gnow + 1)
         now == todo[parsing.k]
     IN  /\ gps_data' = now.data
         /\ satellite_systems' = now.systems
         /\ IF parsing.k = Len(todo)
              THEN /\ parsing' = [parsing EXCEPT !.k = 0]
                   /\ data_lock' = "none"
                   /\ gnow' = gnow + 1
                   /\ boundaries' = boundaries \cup {now}
              ELSE /\ parsing' = [parsing EXCEPT !.k = @ + 1]
                   /\ UNCHANGED <<data_lock, gnow, boundaries>>
  /\ UNCHANGED <<line_in, snapshot, snap_systems, beside_gps>>

\* GPSManager.get_gps_data: with self.data_lock: return self.gps_data.copy()
copy_under_lock ==
  /\ data_lock_free(data_lock)
  /\ snapshot' = [taken |-> TRUE, data |-> gps_data]
  /\ snap_systems' = satellite_systems
  /\ UNCHANGED <<gps_data, satellite_systems, gnow, line_in, yvars, beside_gps>>

DataLockNext ==
  \/ \E l \in Lines : parse_begin(l)
  \/ parse_assign
  \/ copy_under_lock

\* the GPS manager on a device whose offline directory is empty
DataLockInit == Init /\ listdir = {}

DataLockSpec == DataLockInit /\ [][DataLockNext]_vars

(* ------------ retry policy: upload_json and the replay loop ------------ *)
\* one iteration of "for attempt in range(max_retries + 1)" of upload_json
\* with the outcome o: a 201 returns the response, a retryable failure with
\* attempts left continues, anything else returns an error
live_attempt ==
  /\ live_call.pc = "try"
  /\ LET a == live_call.attempt
         o == outcomes[a + 1]
         posted == [live_call EXCEPT !.posts = @ + 1]
     IN  live_call' =
           IF o = "201" THEN [posted EXCEPT !.pc = "done", !.delivered = TRUE]
           ELSE IF retryable(o) /\ more_attempts(a)
             THEN [posted EXCEPT !.attempt = a + 1]
           ELSE [posted EXCEPT !.pc = "done"]
  /\ UNCHANGED <<outcomes, replay_call, uvars, nvars, svars, ivars, gvars, mvars>>

\* one iteration of "for attempt in range(max_retries + 1)" of the replay
\* loop with the outcome o: a 201 removes the file and breaks, a retryable
\* failure goes on to the next attempt while there is one, an unexpected
\* error breaks
replay_attempt ==
  /\ replay_call.pc = "try"
  /\ LET a == replay_call.attempt
         o == outcomes[a + 1]
         posted == [replay_call EXCEPT !.posts = @ + 1]
     IN  replay_call' =
           IF o = "201" THEN [posted EXCEPT !.pc = "done", !.delivered = TRUE]
           ELSE IF replay_retryable(o) /\ replay_more_attempts(a)
             THEN [posted EXCEPT !.attempt = a + 1]
           ELSE [posted EXCEPT !.pc = "done"]
  /\ UNCHANGED <<outcomes, live_call, uvars, nvars, svars, ivars, gvars, mvars>>

PolicyNext == live_attempt \/ replay_attempt

\* a batch and its file, on a device whose offline directory is empty, under
\* every sequence of outcomes of the attempts
PolicyInit ==
  /\ InitUpload
  /\ listdir = {}
  /\ InitSession
  /\ camera_connected = TRUE
  /\ InitSensors
  /\ InitHealth
  /\ outcomes \in [1..(max_retries + 1) -> ReplayOutcomes]
  /\ live_call = NoCall
  /\ replay_call = NoCall

PolicySpec == PolicyInit /\ [][PolicyNext]_vars

(* --------------- IMU health monitoring: Session.run -------------------- *)
\* what self.imu_manager.get_imu_buffer_and_reset() gives the tick: samples,
\* an empty list, or an exception (the tick goes on with an empty list)
Drains == {"samples", "empty", "raises"}

\* variant of a restart that never gives up
gives_up_never(attempts) == FALSE

\* restart_imu: if self.imu_restart_attempts >= self.max_imu_restarts
gives_up(attempts) == attempts >= max_imu_restarts

\* restart_imu, "Stop existing IMU manager": self.imu_manager.running =
\* False, then thread.join(timeout=10) on a thread that is_alive; update_imu
\* is "while True:" and reads no running attribute, so the join returns
\* after its timeout with the thread still running
after_join(alive) == replaced_alive \/ alive

\* Session.restart_imu with a attempts so far and the time of the last data
\* within the timeout or not: the new IMUManager comes up, its construction
\* raises an Exception, or detectIMU finds no device and calls sys.exit(1),
\* which "except Exception" lets through: it ends the tick thread
restart_imu(a, fresh, imu) ==
  IF gives_up(a)
    THEN /\ health' = "gave_up"
         /\ imu_restart_attempts' = a
         /\ imu_fresh' = fresh
         /\ UNCHANGED <<imu_manager, imu_alive, tpc, replaced_alive>>
    ELSE /\ imu_restart_attempts' = a + 1
         /\ replaced_alive' = after_join(imu_manager = "up" /\ imu_alive)
         /\ CASE imu = "ok" ->
                   /\ health' = "restarted"
                   /\ imu_manager' = "up"
                   /\ imu_alive' = TRUE
                   /\ imu_fresh' = TRUE
                   /\ UNCHANGED tpc
              [] imu = "raises" ->
                   /\ health' = "restart_failed"
                   /\ imu_manager' = "none"
                   /\ imu_alive' = FALSE
                   /\ imu_fresh' = fresh
                   /\ UNCHANGED tpc
              [] OTHER ->
                   /\ health' = "restart_exit"
                   /\ imu_manager' = "none"
                   /\ imu_alive' = FALSE
                   /\ imu_fresh' = fresh
                   /\ tpc' = "dead"

\* check_imu_health: not self.imu_manager, or its thread is not alive, or no
\* data for more than imu_timeout_seconds
unhealthy(fresh) == imu_manager = "none" \/ ~imu_alive \/ ~fresh

\* the IMU part of one tick of Session.run: the drain, the periodic health
\* check, and the IMU list that goes into the entry of the tick
imu_tick(drain, imu) ==
  /\ tpc = "check"
  /\ running
  /\ LET data == IF imu_manager = "up" /\ drain = "samples"
                   THEN "samples" ELSE "empty"
         fresh == imu_fresh \/ data = "samples"
         attempts == IF data = "samples" THEN 0 ELSE imu_restart_attempts
         due == imu_check_counter + 1 >= imu_check_interval
     IN  /\ imu_check_counter' = IF due THEN 0 ELSE imu_check_counter + 1
         /\ IF due /\ unhealthy(fresh)
              THEN restart_imu(attempts, fresh, imu)
              ELSE /\ health' = IF due THEN "healthy" ELSE "none"
                   /\ imu_restart_attempts' = attempts
                   /\ imu_fresh' = fresh
                   /\ UNCHANGED <<imu_manager, imu_alive, tpc, replaced_alive>>
         /\ imu_data' = data
         /\ UNCHANGED stray_samples
  /\ UNCHANGED <<running, mpc, batch_payload, tickno, submitted, ret, camera,
                 camera_connected, should_i_snap_image, tvars, uvars, nvars, ivars,
                 gvars, pvars>>

\* the thread of update_imu ends
imu_thread_ends ==
  /\ imu_alive
  /\ imu_alive' = FALSE
  /\ UNCHANGED <<imu_check_counter, imu_restart_attempts, imu_fresh, imu_data,
                 health, replaced_alive, stray_samples, uvars, nvars, svars,
                 ivars, gvars, pvars>>

\* imu_timeout_seconds go by since the last data
imu_timeout ==
  /\ imu_fresh
  /\ imu_fresh' = FALSE
  /\ UNCHANGED <<imu_check_counter, imu_restart_attempts, imu_alive, imu_data,
                 health, replaced_alive, stray_samples, uvars, nvars, svars,
                 ivars, gvars, pvars>>

\* a cycle of update_imu in the thread of a replaced manager:
\* imu_buffer.append(self.imu_data.copy()) on the module's one imu_buffer
replaced_update_imu ==
  /\ replaced_alive
  /\ stray_samples' = TRUE
  /\ UNCHANGED <<imu_check_counter, imu_restart_attempts, imu_alive, imu_fresh,
                 imu_data, health, replaced_alive, uvars, nvars, svars, ivars,
                 gvars, pvars>>

\* the thread of a replaced manager ends: a read raises
replaced_thread_ends ==
  /\ replaced_alive
  /\ replaced_alive' = FALSE
  /\ UNCHANGED <<imu_check_counter, imu_restart_attempts, imu_alive, imu_fresh,
                 imu_data, health, stray_samples, uvars, nvars, svars, ivars,
                 gvars, pvars>>

HealthNext ==
  \/ \E drain \in Drains, imu \in ImuInits : imu_tick(drain, imu)
  \/ imu_thread_ends
  \/ imu_timeout
  \/ replaced_update_imu
  \/ replaced_thread_ends

\* a session after a start() that returned True, with the IMU up or without
\* it, on a device without a camera whose offline directory is empty
HealthInit ==
  /\ InitUpload
  /\ listdir = {}
  /\ running = TRUE
  /\ tpc = "check"
  /\ mpc = "idle"
  /\ batch_payload = <<>>
  /\ tickno = 0
  /\ submitted = <<>>
  /\ ret = "True"
  /\ camera = "none"
  /\ camera_connected = FALSE
  /\ should_i_snap_image = 0
  /\ local_time = 0
  /\ snap_time = <<>>
  /\ set_backs = 0
  /\ last_snap = 0
  /\ last_entry = batch_entry(placeholder)
  /\ InitSensors
  /\ InitPolicy
  /\ imu_check_counter = 0
  /\ imu_restart_attempts = 0
  /\ \/ imu_manager = "up" /\ imu_alive = TRUE
     \/ imu_manager = "none" /\ imu_alive = FALSE
  /\ imu_fresh = TRUE
  /\ imu_data = "none"
  /\ health = "none"
  /\ replaced_alive = FALSE
  /\ stray_samples = FALSE

HealthSpec == HealthInit /\ [][HealthNext]_vars

(* ------------------ flow meter: src/V2/flow_meter.py ------------------- *)
\* the pin of the flow meter changes its level
pin_changes ==
  /\ counted < MaxPulses
  /\ pin' = 1 - pin
  /\ UNCHANGED <<pulse_count, lock, last_state, fpc, loaded, gpc, counter,
                 counted, returned, flow_counter, litter_per_hour, beside_flow>>

\* "with lock:" is entered when nobody holds the lock
can_acquire_always(holder) == TRUE

can_acquire(holder) == holder = "none"

\* polling_monitor: current_state = lgpio.gpio_read(chip, FLOW_PIN), the
\* test for a falling edge, last_state = current_state
poll_read ==
  /\ fpc = "read"
  /\ fpc' = IF last_state = 1 /\ pin = 0 THEN "wait" ELSE "read"
  /\ last_state' = pin
  /\ UNCHANGED <<pulse_count, lock, pin, loaded, gpc, counter, counted,
                 returned, flow_counter, litter_per_hour, beside_flow>>

\* polling_monitor: with lock:
poll_acquire ==
  /\ fpc = "wait"
  /\ can_acquire(lock)
  /\ lock' = "poll"
  /\ fpc' = "load"
  /\ UNCHANGED <<pulse_count, pin, last_state, loaded, gpc, counter, counted,
                 returned, flow_counter, litter_per_hour, beside_flow>>

\* polling_monitor: pulse_count += 1, the load of the global
poll_load ==
  /\ fpc = "load"
  /\ loaded' = pulse_count
  /\ fpc' = "store"
  /\ UNCHANGED <<pulse_count, lock, pin, last_state, gpc, counter, counted,
                 returned, flow_counter, litter_per_hour, beside_flow>>

\* polling_monitor: pulse_count += 1, the store, and the end of the with
\* block
poll_store ==
  /\ fpc = "store"
  /\ pulse_count' = loaded + 1
  /\ counted' = counted + 1
  /\ lock' = "none"
  /\ fpc' = "read"
  /\ UNCHANGED <<pin, last_state, loaded, gpc, counter, returned,
                 flow_counter, litter_per_hour, beside_flow>>

\* Session.run calls get_counter_and_reset: with lock:
get_acquire ==
  /\ gpc = "idle"
  /\ can_acquire(lock)
  /\ lock' = "tick"
  /\ gpc' = "read"
  /\ UNCHANGED <<pulse_count, pin, last_state, fpc, loaded, counter, counted,
                 returned, flow_counter, litter_per_hour, beside_flow>>

\* get_counter_and_reset: counter = pulse_count
get_read ==
  /\ gpc = "read"
  /\ counter' = pulse_count
  /\ gpc' = "reset"
  /\ UNCHANGED <<pulse_count, lock, pin, last_state, fpc, loaded, counted,
                 returned, flow_counter, litter_per_hour, beside_flow>>

\* get_counter_and_reset: pulse_count = 0, and the end of the with block
get_reset ==
  /\ gpc = "reset"
  /\ pulse_count' = 0
  /\ lock' = "none"
  /\ gpc' = "return"
  /\ UNCHANGED <<pin, last_state, fpc, loaded, counter, counted, returned,
                 flow_counter, litter_per_hour, beside_flow>>

\* interval_in_hours = sleep_interval/3600, as a fraction
interval_in_hours == <<sleep_interval, 3600>>

\* Session.run: litter_per_hour = flow_counter/flow_meter_pulses_per_litter
per_litter(pulses) == <<pulses, flow_meter_pulses_per_litter>>

\* get_counter_and_reset returns counter; Session.run computes the flow
\* value of the tick from it
get_return ==
  /\ gpc = "return"
  /\ returned' = returned + counter
  /\ flow_counter' = counter
  /\ litter_per_hour' = per_litter(counter)
  /\ gpc' = "idle"
  /\ UNCHANGED <<pulse_count, lock, pin, last_state, fpc, loaded, counter,
                 counted, beside_flow>>

FlowNext ==
  \/ pin_changes
  \/ poll_read
  \/ poll_acquire
  \/ poll_load
  \/ poll_store
  \/ get_acquire
  \/ get_read
  \/ get_reset
  \/ get_return

\* the flow meter set up, on a device whose offline directory is empty
FlowInit == Init /\ listdir = {}

FlowSpec == FlowInit /\ [][FlowNext]_vars

(* -------- compass calibration: src/V3/calibrate/IMU_calibration.py ----- *)
\* what one iteration of the loop of run can meet: readings inside the
\* tracked min/max, readings that move a minimum or maximum, or a read that
\* raises
Readings == {"inside", "outside", "raises"}
\* how _save_imu_values ends
Saves == {"saved", "failed"}

\* _check_calibration_complete: the window is quiet enough
few_changes(changes) == changes <= MAX_CHANGES_ALLOWED

\* one iteration of "while True:" of IMUCalibrator.run: the readings,
\* _update_min_max_values, _check_values_changed, the iteration counter,
\* _check_calibration_complete; an exception is logged and the loop goes on
calibrate(reading, save) ==
  /\ calibration = "active"
  /\ save = "failed" => save_failures < MaxSaveFailures
  /\ IF reading = "raises"
       THEN UNCHANGED <<iteration_counter, change_counter, calibration,
                        save_failures>>
       ELSE LET changes == IF reading = "outside" THEN change_counter + 1
                           ELSE change_counter
                iterations == iteration_counter + 1
            IN  IF iterations >= ITERATION_THRESHOLD
                  THEN IF few_changes(changes)
                         THEN /\ iteration_counter' = iterations
                              /\ change_counter' = changes
                              /\ calibration' = IF save = "saved" THEN "complete"
                                                ELSE "active"
                              /\ save_failures' = IF save = "saved"
                                                    THEN save_failures
                                                    ELSE save_failures + 1
                         ELSE /\ iteration_counter' = 0
                              /\ change_counter' = 0
                              /\ UNCHANGED <<calibration, save_failures>>
                  ELSE /\ iteration_counter' = iterations
                       /\ change_counter' = changes
                       /\ UNCHANGED <<calibration, save_failures>>
  /\ UNCHANGED beside_calibration

CalibrationNext == \E reading \in Readings, save \in Saves : calibrate(reading, save)

\* the calibrator on a device whose offline directory is empty
CalibrationInit == Init /\ listdir = {}

CalibrationSpec == CalibrationInit /\ [][CalibrationNext]_vars

(* ------------- button LEDs: src/V3/button_led_manager.py --------------- *)
\* the calls of the manager; blink is called with speed_ms > 0
LedCalls ==
  [name : {"turn_on", "blink"}, color : LEDColor]
    \cup [name : {"turn_off", "cleanup"}, color : {"GREEN"}]

\* a caller enters turn_on, blink, turn_off or cleanup: with self.blink_lock
led_enter(op) ==
  /\ lpc = "idle"
  /\ lpc' = "stop"
  /\ led_op' = op
  /\ UNCHANGED <<leds, current_led, blink_thread, blink_event, led_call,
                 beside_leds>>

\* _stop_blinking: self.blink_event.set(); self.blink_event = None
stop_set ==
  /\ lpc = "stop"
  /\ blink_event' = IF blink_event = "none" THEN "none" ELSE "set"
  /\ lpc' = "join"
  /\ UNCHANGED <<leds, current_led, blink_thread, led_op, led_call, beside_leds>>

\* where the call goes after "if self.current_led is not None: ... .off()"
after_current(op) ==
  CASE op.name = "turn_on" /\ op.color = "GREEN" -> "idle"
    [] op.name = "turn_off" -> "default"
    [] OTHER -> "green"

\* _stop_blinking: self.blink_thread.join(timeout=1.0), which the thread,
\* woken by the event, ends; cleanup goes on to the default state
stop_join ==
  /\ lpc = "join"
  /\ blink_thread.pc = "none"
  /\ blink_event' = "none"
  /\ lpc' = IF led_op.name = "cleanup" THEN "default" ELSE "current"
  /\ UNCHANGED <<leds, current_led, blink_thread, led_op, led_call, beside_leds>>

\* "if self.current_led is not None: self.current_led.off()"; turn_off also
\* sets current_led to None; turn_on(GREEN) returns here
current_off ==
  /\ lpc = "current"
  /\ leds' = IF current_led = "none" THEN leds
             ELSE [leds EXCEPT ![current_led] = FALSE]
  /\ current_led' = IF led_op.name = "turn_off" THEN "none" ELSE current_led
  /\ lpc' = after_current(led_op)
  /\ led_call' = IF after_current(led_op) = "idle" THEN led_op ELSE led_call
  /\ UNCHANGED <<blink_thread, blink_event, led_op, beside_leds>>

\* _turn_off_green
turn_off_green ==
  /\ lpc = "green"
  /\ leds' = [leds EXCEPT !["GREEN"] = FALSE]
  /\ lpc' = IF led_op.name = "turn_on" THEN "on" ELSE "start"
  /\ UNCHANGED <<current_led, blink_thread, blink_event, led_op, led_call,
                 beside_leds>>

\* turn_on: led.on(); self.current_led = led
led_on ==
  /\ lpc = "on"
  /\ leds' = [leds EXCEPT ![led_op.color] = TRUE]
  /\ current_led' = led_op.color
  /\ lpc' = "idle"
  /\ led_call' = led_op
  /\ UNCHANGED <<blink_thread, blink_event, led_op, beside_leds>>

\* blink: self.current_led = led, a new event, the thread started
blink_start ==
  /\ lpc = "start"
  /\ current_led' = led_op.color
  /\ blink_event' = "clear"
  /\ blink_thread' = [led |-> led_op.color, pc |-> "test"]
  /\ lpc' = "idle"
  /\ led_call' = led_op
  /\ UNCHANGED <<leds, led_op, beside_leds>>

\* turn_off and cleanup: _turn_on_green_default; cleanup sets current_led to
\* None after it
green_default ==
  /\ lpc = "default"
  /\ leds' = turn_on_green_default
  /\ current_led' = IF led_op.name = "cleanup" THEN "none" ELSE current_led
  /\ lpc' = "idle"
  /\ led_call' = led_op
  /\ UNCHANGED <<blink_thread, blink_event, led_op, beside_leds>>

\* the next position of _blink_loop: the loop condition and the two waits
\* leave the loop once the event is set
blink_next(pc) ==
  CASE pc = "test" -> IF blink_event = "set" THEN "finally" ELSE "on"
    [] pc = "on" -> "wait_on"
    [] pc = "wait_on" -> IF blink_event = "set" THEN "finally" ELSE "off"
    [] pc = "off" -> "wait_off"
    [] pc = "wait_off" -> IF blink_event = "set" THEN "finally" ELSE "test"
    [] pc = "finally" -> "none"

\* one step of _blink_loop: led.on(), led.off(), a wait, or the finally
blink_loop ==
  /\ blink_thread.pc # "none"
  /\ leds' = CASE blink_thread.pc = "on" -> [leds EXCEPT ![blink_thread.led] = TRUE]
               [] blink_thread.pc \in {"off", "finally"} ->
                    [leds EXCEPT ![blink_thread.led] = FALSE]
               [] OTHER -> leds
  /\ blink_thread' = IF blink_next(blink_thread.pc) = "none" THEN NoThread
                     ELSE [blink_thread EXCEPT !.pc = blink_next(@)]
  /\ UNCHANGED <<current_led, blink_event, lpc, led_op, led_call, beside_leds>>

LedsNext ==
  \/ \E op \in LedCalls : led_enter(op)
  \/ stop_set
  \/ stop_join
  \/ current_off
  \/ turn_off_green
  \/ led_on
  \/ blink_start
  \/ green_default
  \/ blink_loop

\* the LED manager on a device whose offline directory is empty
LedsInit == Init /\ listdir = {}

LedsSpec == LedsInit /\ [][LedsNext]_vars

(* ----------- the shared HTTP session: src/upload.py -------------------- *)
\* upload_json: response = self.session.post(...) begins, on the object
\* self.session is bound to at that moment
post_begin(w) ==
  /\ upc[w] = "try"
  /\ upc' = [upc EXCEPT ![w] = "posting"]
  /\ posting_on' = [posting_on EXCEPT ![w] = session]
  /\ UNCHANGED <<session, closed_sessions, uattempt, beside_session>>

\* upload_json: the POST ends with the outcome o; the handler of a
\* connection error with attempts left calls _recreate_session, which closes
\* self.session and binds it to a new object, whatever the other worker
\* threads are doing
post_end(w, o) ==
  /\ upc[w] = "posting"
  /\ posting_on' = [posting_on EXCEPT ![w] = 0]
  /\ IF retryable(o) /\ more_attempts(uattempt[w])
       THEN /\ upc' = [upc EXCEPT ![w] = "try"]
            /\ uattempt' = [uattempt EXCEPT ![w] = @ + 1]
            /\ IF recreates(o)
                 THEN /\ closed_sessions' = closed_sessions \cup {session}
                      /\ session' = session + 1
                 ELSE UNCHANGED <<session, closed_sessions>>
       ELSE /\ upc' = [upc EXCEPT ![w] = "done"]
            /\ UNCHANGED <<uattempt, session, closed_sessions>>
  /\ UNCHANGED beside_session

SharedSessionNext ==
  \/ \E w \in Workers : post_begin(w)
  \/ \E w \in Workers, o \in Outcomes : post_end(w, o)

\* the client with its three worker threads, on a device whose offline
\* directory is empty
SharedSessionInit == Init /\ listdir = {}

SharedSessionSpec == SharedSessionInit /\ [][SharedSessionNext]_vars

(* ------------ wake on motion: src/V4/IMU_manager.py -------------------- *)
\* a minute goes by
minute_passes ==
  /\ wake_now < MaxMinutes
  /\ wake_now' = wake_now + 1
  /\ UNCHANGED <<is_active, sleep_timer, stop_event, high_freq_mode, collector,
                 sleep_entered, beside_wake>>

\* how a motion interrupt goes: the bus calls work, the read of the wake-up
\* source raises, or a write of configure_high_freq_mode raises
Motions == {"ok", "read_raises", "write_raises"}

\* motion_detected_callback: everything is inside one try whose handler
\* prints; start_imu_collection clears the stop event and starts the thread
motion_detected_callback(motion) ==
  /\ IF motion = "read_raises" \/ is_active
       THEN UNCHANGED <<is_active, sleep_timer, stop_event, high_freq_mode,
                        collector>>
       ELSE /\ is_active' = TRUE
            /\ sleep_timer' = -1
            /\ IF motion = "write_raises"
                 THEN UNCHANGED <<stop_event, high_freq_mode, collector>>
                 ELSE /\ high_freq_mode' = TRUE
                      /\ stop_event' = FALSE
                      /\ collector' = "running"
  /\ UNCHANGED <<wake_now, sleep_entered, beside_wake>>

\* self.thread.join(timeout=2) of stop_imu_collection, called by the thread
\* it joins: Thread.join raises RuntimeError("cannot join current thread")
join_raises(caller) == caller = "collector"

\* how a cycle of update_imu goes: the reads work or one of them raises
Cycles == {"ok", "raises"}

\* one cycle of update_imu: the reads, the append, check_for_sleep (which
\* starts the sleep timer, or calls enter_sleep_mode once SLEEP_TIMEOUT has
\* gone by: stop_imu_collection sets the stop event and joins the thread,
\* then configure_wake_mode and the reset of is_active and sleep_timer);
\* "except Exception: ... break" ends the thread
update_imu(cycle) ==
  /\ collector = "running"
  /\ IF cycle = "raises"
       THEN /\ collector' = "stopped"
            /\ UNCHANGED <<is_active, sleep_timer, stop_event, high_freq_mode,
                           sleep_entered>>
       ELSE IF ~is_active
         THEN UNCHANGED <<is_active, sleep_timer, stop_event, high_freq_mode,
                          collector, sleep_entered>>
       ELSE IF sleep_timer = -1
         THEN /\ sleep_timer' = wake_now
              /\ UNCHANGED <<is_active, stop_event, high_freq_mode, collector,
                             sleep_entered>>
       ELSE IF wake_now - sleep_timer >= SLEEP_TIMEOUT
         THEN /\ sleep_entered' = TRUE
              /\ stop_event' = TRUE
              /\ collector' = "stopped"
              /\ IF join_raises("collector")
                   THEN UNCHANGED <<is_active, sleep_timer, high_freq_mode>>
                   ELSE /\ high_freq_mode' = FALSE
                        /\ is_active' = FALSE
                        /\ sleep_timer' = -1
         ELSE UNCHANGED <<is_active, sleep_timer, stop_event, high_freq_mode,
                          collector, sleep_entered>>
  /\ UNCHANGED <<wake_now, beside_wake>>

WakeNext ==
  \/ minute_passes
  \/ \E motion \in Motions : motion_detected_callback(motion)
  \/ \E cycle \in Cycles : update_imu(cycle)

\* the wake-on-motion manager on a device whose offline directory is empty
WakeInit == Init /\ listdir = {}

WakeSpec == WakeInit /\ [][WakeNext]_vars

(* ============================ properties =============================== *)

(* ---- C1 ---- *)
\* C1: whatever way an attempt of upload_json fails, the call never returns
\* an error result for a batch that it did not write to the offline directory:
\* a batch is delivered (201) or on disk when upload_json returns.
C1_NeverDropped ==
  \A b \in Batches : hist[b].res = "error" => hist[b].saves >= 1

(* ---- C2 ---- *)
\* the entry of tick e is in a payload handed to flash_batch
handed(e) ==
  \E i \in 1..Len(submitted) : \E j \in 1..Len(submitted[i]) : submitted[i][j] = e

\* C2: once Session.end has returned, every Batch Entry appended by a tick of
\* Session.run has been handed to flash_batch, the partially filled batch that
\* was in memory at the call of end included.
C2_EveryEntryHanded ==
  (mpc = "idle" /\ ~running /\ tpc = "exited") => \A e \in 1..tickno : handed(e)

persisting_failure(o, attempt) ==
  \/ o = "reqexc"
  \/ (o \in {"conn", "timeout"} /\ attempt = max_retries)

C5_OneFilePerBatch ==
  \A n \in Names : ~offline[n].over /\ ~problematic[n].over

(* ---- C6 ---- *)
\* C6: while save_to_disk has a pending file open, the replay loop leaves it
\* where it is: it neither deletes it as zero-size nor moves it to
\* problematic/.
C6_OpenFileLeftAlone ==
  \A w \in Workers : wpc[w] \in {"opened", "writing"} => where(w) = "offline"

(* ---- C7 ---- *)
\* a pending file with bytes that do not parse
Corrupt(f) == f.st = "partial"

loads_corrupt == rpc = "load" /\ rpc' # "load" /\ Corrupt(offline[rfiles[ridx]])

C9_RemovedOnlyAfterOwn201 ==
  [][\A n \in Names :
       (offline[n].st = "full" /\ offline[n].wr = {} /\ offline'[n].st = "none")
         => /\ offline[n].data \in rdelivered'
            /\ offline[n].data \notin rdelivered]_vars

C11_NoAttemptOnFailedSession ==
  \A w \in Workers :
    (wpc[w] = "try" /\ wattempt[w] > 0) => wsess[w] = "closed"

(* ---- C12 ---- *)
\* C12: no failure of a sensor ends the tick loop: the thread of Session.run
\* is never ended by an exception, whatever the GPS snapshot call returns and
\* whether the camera failed to open or the capture raises.
C12_TickLoopNeverDies == tpc # "dead"

(* ---- C13 ---- *)
\* C13: start while Idle moves to Running and returns True with the tick
\* thread started; end while Running moves to Idle and returns True; a call
\* that returns False changes nothing.
C13_StartEndStateMachine ==
  [][/\ (~running /\ running') => (ret' = "True" /\ tpc' = "check")
     /\ (mpc = "joining" /\ mpc' = "idle") => (ret' = "True" /\ ~running')
     /\ (ret' = "False" /\ ret # "False") => UNCHANGED <<running, tpc>>]_vars

(* ---- C14 ---- *)
\* C14: once end has returned and until the next start (no call in progress,
\* running false), the tick thread has ended: it is neither at the loop test
\* nor in a tick, so no entry is appended and no flush is submitted.
C14_NoTickAfterEnd ==
  (mpc = "idle" /\ ~running) => tpc \notin {"check", "tick"}

\* end has returned True after a session that ran ticks
C14_Reached ==
  /\ mpc = "idle"
  /\ ~running
  /\ ret = "True"
  /\ tpc = "exited"
  /\ tickno > 0

(* ---- C15 ---- *)
\* C15: whatever way the IMU or the camera fails to initialize, start never
\* leaves the session with running == true and no tick loop started for it.
C15_RunningHasTickLoop ==
  running => tpc \notin {"none", "exited"}

(* ---- C16 ---- *)
\* the batches of a sequence of drains, one after the other
RECURSIVE Flatten(_)
Flatten(ss) == IF ss = <<>> THEN <<>> ELSE Head(ss) \o Flatten(Tail(ss))

\* C16: with producer and consumer both between calls, the samples returned
\* by the drains so far followed by the samples still buffered are the
\* samples appended so far, each once and in append order.
C16_EverySampleDrainedOnce ==
  (ppc = "idle" /\ cpc = "idle")
    => Flatten(returns) \o imu_buffer = [k \in 1..nsamples |-> k]

(* ---- C17 ---- *)
\* C17: a drain with no producer step since it began has returned every
\* buffered sample and left the buffer empty, and a second drain that follows
\* it with no producer step in between returns the empty list.
C17_SecondDrainEmpty ==
  /\ (cpc = "copied" /\ calm >= 1) => batch = imu_buffer
  /\ (cpc = "idle" /\ calm >= 1) => imu_buffer = <<>>
  /\ (cpc = "idle" /\ calm >= 2) => returns[Len(returns)] = <<>>

\* two drains in a row with no producer step: the first returned samples, the
\* second nothing
C17_Reached ==
  /\ cpc = "idle"
  /\ calm >= 2
  /\ returns[Len(returns) - 1] # <<>>
  /\ returns[Len(returns)] = <<>>

(* ---- C18 ---- *)
\* C18: ingesting an RMC sentence whose validity flag is not 'A' leaves
\* latitude, longitude, speed_knots, speed_kmh and course as they were,
\* whatever the sentence carries in those fields.
C18_InactiveRmcKeepsMotion ==
  [][(gnow' # gnow /\ line_in'.kind = "RMC" /\ line_in'.status # "A")
       => /\ gps_data'.latitude = gps_data.latitude
          /\ gps_data'.longitude = gps_data.longitude
          /\ gps_data'.speed_knots = gps_data.speed_knots
          /\ gps_data'.speed_kmh = gps_data.speed_kmh
          /\ gps_data'.course = gps_data.course]_vars

(* ---- C19 ---- *)
\* a line that is none of the four sentence kinds, or one of them with too
\* few fields for its parser
unparsed(l) ==
  IF l.kind \in {"RMC", "GGA", "GSA", "GSV"} THEN ~l.long ELSE TRUE

\* C19: ingesting a line that is not one of the four recognized sentence
\* kinds, or that fails to parse, changes no field of the fix record, the
\* data-freshness timestamp and the last-update time included.
C19_UnparsedLineIsNoOp ==
  [][(gnow' # gnow /\ unparsed(line_in'))
       => (gps_data' = gps_data /\ satellite_systems' = satellite_systems)]_vars

(* ---- C20 ---- *)
\* C20: what a snapshot returned by get_gps_data reads as never changes after
\* its return: its satellite-systems collection is still what it was when
\* the snapshot was returned.
C20_SnapshotIsACopy ==
  snapshot.taken => snapshot_systems = snap_systems

(* ---- C21 ---- *)
\* json.dumps of the "payload" list: the entries in list order, each with the
\* "timestamp" its tick gave it
wire(payload) == [i \in 1..Len(payload) |-> snap_time[payload[i]]]

\* C21: every payload handed to the upload engine holds the entries of its
\* ticks in tick order, and the timestamps of its serialized entries are
\* strictly increasing.
C21_TimestampsIncrease ==
  \A i \in 1..Len(submitted) :
    \A j \in 1..(Len(submitted[i]) - 1) :
      /\ submitted[i][j] < submitted[i][j + 1]
      /\ wire(submitted[i])[j] < wire(submitted[i])[j + 1]

C23_EmptyCycleIsNoOp ==
  [][(rpc = "sleep" /\ listdir = {} /\ <<rvars, ridle>>' # <<rvars, ridle>>)
       => /\ ridle'
          /\ UNCHANGED <<rvars, dvars, rdelivered, rename_result, clock, qvars,
                         wvars, hist>>]_vars

\* the replay loop is asleep after a cycle that found nothing in a directory
\* that is still empty
C23_Reached == rpc = "sleep" /\ ridle /\ listdir = {}

(* ---- C24 ---- *)
\* C24: for every sequence of per-attempt outcomes, once the retry loop of
\* upload_json and that of the replay loop are both over they have made the
\* same number of POST attempts and agree on whether the batch was delivered.
C24_SameRetryPolicy ==
  (live_call.pc = "done" /\ replay_call.pc = "done")
    => /\ live_call.posts = replay_call.posts
       /\ live_call.delivered = replay_call.delivered

(* ---- C25 ---- *)
\* C25: once Session.end has returned, the IMU producer thread takes no
\* further step of update_imu: it starts no cycle and appends no sample to
\* the shared buffer.
C25_ProducerStoppedAfterEnd ==
  [][ended => (ppc' = ppc /\ nsamples' = nsamples)]_vars

(* ---- C26 ---- *)
\* a tick of the loop: its counter of the health check moves
ticks == imu_check_counter' # imu_check_counter

\* C26: the health check runs on every tenth tick and on no other; it makes
\* a restart attempt only when there is no IMU manager, its thread is dead or
\* the data is older than the timeout; the attempts since the last non-empty
\* drain never exceed max_imu_restarts; and a check that finds the IMU
\* unhealthy after max_imu_restarts attempts gives up: it makes no attempt,
\* leaves the IMU manager as it is, and the tick appends its entry with an
\* empty IMU list and goes on.
C26_BoundedRestarts ==
  [][/\ imu_restart_attempts' <= max_imu_restarts
     /\ ticks => ((health' # "none") <=> (imu_check_counter = imu_check_interval - 1))
     /\ (ticks /\ health' \in {"restarted", "restart_failed", "restart_exit"})
          => /\ imu_manager = "none" \/ ~imu_alive \/ ~imu_fresh
             /\ imu_restart_attempts' >= 1
     /\ (ticks /\ health' = "gave_up")
          => /\ imu_restart_attempts = max_imu_restarts
             /\ imu_restart_attempts' = max_imu_restarts
             /\ imu_manager' = imu_manager
             /\ imu_data' = "empty"
             /\ tpc' = "check"
     /\ (ticks /\ imu_restart_attempts = max_imu_restarts
           /\ imu_check_counter = imu_check_interval - 1 /\ imu_data' = "empty")
          => health' \in {"healthy", "gave_up"}]_vars

\* the health check has given up after max_imu_restarts attempts and the
\* tick has appended an entry without IMU samples
C26_Reached ==
  /\ health = "gave_up"
  /\ imu_restart_attempts = max_imu_restarts
  /\ imu_data = "empty"
  /\ tpc = "check"

(* ---- C27 ---- *)
\* C27: whatever raises in a cycle of update_imu, a register read or the
\* heading computation, the producer thread is alive afterwards and goes on
\* to its next cycle.
C27_ProducerSurvivesFailure == ppc # "dead"

(* ---- C28 ---- *)
\* C28: with a camera present, the number of ticks from one capture of the
\* loop to its next is camera_interval = sleep_interval // 5.
C28_CaptureEveryIntervalTicks ==
  [][(last_snap' # last_snap /\ last_snap # 0 /\ last_snap' # 0)
       => last_snap' - last_snap = camera_interval]_vars

(* ---- C29 ---- *)
\* C29: after every tick the outgoing batch holds fewer than batch_size
\* entries, those of the ticks since the last flush; the payloads handed to
\* the upload engine are, in order, the entries of batch_size consecutive
\* ticks each, no tick in two of them and none changed by a later tick; and
\* each was submitted to the executor once.
C29_FullBatchesHandedOnce ==
  /\ Len(batch_payload) < batch_size
  /\ tickno = (Len(submitted) * batch_size) + Len(batch_payload)
  /\ \A j \in 1..Len(batch_payload) :
       batch_payload[j] = (Len(submitted) * batch_size) + j
  /\ \A i \in 1..Len(submitted) :
       /\ Len(submitted[i]) = batch_size
       /\ \A j \in 1..batch_size : submitted[i][j] = ((i - 1) * batch_size) + j
  /\ nsub = Len(submitted)
  /\ queue = [i \in 1..nsub |-> i]

\* two batches have been handed over and a later tick has appended to a new
\* batch
C29_Reached ==
  /\ Len(submitted) >= 2
  /\ Len(batch_payload) >= 1

(* ---- C30 ---- *)
\* entries appended so far: those handed over and those in the outgoing batch
appended(handed_over, outgoing) == (Len(handed_over) * batch_size) + Len(outgoing)

\* C30: every tick of the loop appends exactly one entry, and an entry
\* with gps_fix = false carries latitude 0, longitude 0, speed 0 and
\* heading 0.
C30_EveryTickAppendsOneEntry ==
  [][(tpc = "tick" /\ tpc' # "tick")
       => /\ appended(submitted', batch_payload')
               = appended(submitted, batch_payload) + 1
          /\ ~last_entry'.gps_fix
               => /\ last_entry'.latitude = 0
                  /\ last_entry'.longitude = 0
                  /\ last_entry'.speed_kmh = 0
                  /\ last_entry'.heading = 0]_vars

(* ---- C31 ---- *)
\* C31: the flow value of a tick equals (pulses / pulses_per_liter) /
\* (tick interval in hours), pulses being the count the tick drained.
C31_FlowIsVolumePerHour ==
  litter_per_hour[1] * (flow_meter_pulses_per_litter * interval_in_hours[1])
    = litter_per_hour[2] * (flow_counter * interval_in_hours[2])

(* ---- C32 ---- *)
\* the value a call of get_counter_and_reset has taken and not yet returned
in_flight == IF gpc = "return" THEN counter ELSE 0

\* C32: no pulse is lost or counted twice: the values get_counter_and_reset
\* returned (and the one it is about to return) plus pulse_count add up to
\* the falling edges counted.
C32_NoPulseLostOrDoubled == returned + in_flight + pulse_count = counted

\* a drain holds the lock while the polling thread waits with an edge, after
\* an earlier drain that returned pulses
C32_Reached == lock = "tick" /\ fpc = "wait" /\ returned > 0

C34_GsvFirstMessageAndNoDuplicate ==
  [][/\ gps_data'.satellites_view # gps_data.satellites_view
          => (line_in'.kind = "GSV" /\ line_in'.msg = "1")
     /\ \A i, j \in 1..Len(satellite_systems') :
          satellite_systems'[i] = satellite_systems'[j] => i = j]_vars

\* the second GSV sentence of a talker, with sequence index 2 and another
\* total: the count is that of the first and the tag is there once
C34_Reached ==
  /\ gnow = 2
  /\ line_in.kind = "GSV" /\ line_in.long /\ line_in.msg = "2"
  /\ line_in.sats = "5"
  /\ gps_data.satellites_view = 9
  /\ satellite_systems = <<system_of(line_in)>>

(* ---- C35 ---- *)
\* C35: an active calibration ends only when the window of
\* ITERATION_THRESHOLD iterations saw the min/max values change in fewer
\* than MAX_CHANGES_ALLOWED iterations; a window that saw that many changes
\* or more restarts both counters and calibration goes on.
C35_EndsOnlyBelowMaxChanges ==
  calibration = "complete" => change_counter < MAX_CHANGES_ALLOWED

(* ---- C36 ---- *)
\* the LEDs that are lit or blinking
active_leds == {c \in LEDColor : leds[c] \/ blink_thread.led = c}

\* C36: after turn_on(color) has returned the LED of that color is lit and
\* the other two are off, and at no time is more than one LED lit or
\* blinking.
C36_TurnOnLightsOnlyThatLed ==
  /\ (lpc = "idle" /\ led_call.name = "turn_on")
       => \A c \in LEDColor : leds[c] <=> (c = led_call.color)
  /\ Cardinality(active_leds) <= 1

(* ---- C37 ---- *)
\* C37: at most one IMU producer thread appends to imu_buffer: once
\* restart_imu has replaced a manager, the thread of the replaced manager
\* does not run beside the thread of the new one and appends no sample.
C37_OneProducerThread ==
  /\ ~(replaced_alive /\ imu_alive)
  /\ ~stray_samples

(* ---- C38 ---- *)
\* C38: while a call of upload_json has a POST in flight on the shared
\* session, no other call closes or replaces that session: the session
\* object of a POST in flight is not closed and is still self.session.
C38_SessionOfPostInFlightUntouched ==
  \A w \in Workers :
    upc[w] = "posting"
      => (posting_on[w] \notin closed_sessions /\ posting_on[w] = session)

(* ---- C39 ---- *)
\* the GPS fields of the entry a tick appends for the snapshot it took
entry_of_snapshot == batch_entry(substitute(snapshot.data))

\* C39: an entry with gps_fix = true never carries the initial default
\* coordinates 0.0 / 0.0, for every order of RMC and GSA sentences.
C39_FixHasParsedPosition ==
  (snapshot.taken /\ entry_of_snapshot.gps_fix)
    => ~(entry_of_snapshot.latitude = 0 /\ entry_of_snapshot.longitude = 0)

(* ---- C40 ---- *)
\* C40: once SLEEP_TIMEOUT has gone by and enter_sleep_mode has been called
\* it completes: the collection thread has stopped, the sensor is in wake
\* mode and is_active is false, so the manager is not left with is_active
\* true and no collection thread running.
C40_SleepCompletes ==
  sleep_entered => (~is_active /\ ~high_freq_mode /\ collector # "running")

====
